---- MODULE Spec2Model ----
(***************************************************************************)
(* Lifecycle and concurrency model of rclrs::Context (context.rs) and of   *)
(* the process-wide DefaultContext (context/default_context.rs).           *)
(*                                                                         *)
(* Spec        threads calling ok() and shutdown() on one shared Context,  *)
(*             callback registration, node holders and the drop of the     *)
(*             native handle.                                              *)
(* SpecGlobal  threads calling DefaultContext::get_global_default_context. *)
(***************************************************************************)
EXTENDS Naturals, Sequences, FiniteSets

\* ------------------------------------------------------------------ bounds
NumThreads == 2
MaxCalls == 3
MaxNodes == 1
NumArgs == 3

Threads == 1..NumThreads

\* f[1] + .. + f[n]
RECURSIVE SumTo(_, _)
SumTo(f, n) == IF n = 0 THEN 0 ELSE f[n] + SumTo(f, n - 1)
NoThread == 0
\* Argument sequences handed to Context::new, named by a number.
ArgSeqs == 1..NumArgs

\* Shutdown callbacks a program can register: one that only returns, one that
\* queries ok() on the same context, one that panics.
Callbacks == {"cbA", "cbQuery", "cbPanic"}
NoCallback == "none"

\* The empty cell, and "no instance returned": instances are numbered from 1.
NoInstance == [id |-> 0, args |-> 0, by |-> 0]

VARIABLES
  handle,             \* rcl_context_t: "valid", "shutdown" or "finalized"
  lockOwner,          \* thread holding the guard of rcl_context_mtx
  poisoned,           \* rcl_context_mtx is poisoned
  shutdown_callback,  \* Context.shutdown_callback
  ctxAlive,           \* the Context value (one holder of the Arc) exists
  nodes,              \* further clones of the Arc held by nodes
  created,            \* nodes created so far
  pc,                 \* position of each thread
  ret,                \* value computed by the call a thread is in, else FALSE
  nativeRet,          \* result of the last rcl_shutdown a thread made
  invoked,            \* the thread's current shutdown() started the callback
  calls,              \* calls started by each thread, MaxCalls in all
  sdLog,              \* shutdown() calls that returned, in order of return
  transitioned,       \* <<thread, call>> whose rcl_shutdown succeeded
  cbAtShutdown,       \* callback registered when rcl_shutdown succeeded
  cbCount,            \* callback invocations
  cbSaw,              \* what ok() returned inside the callback, if it did
  shutdownCalls,      \* rcl_shutdown invocations
  finiCalls,          \* rcl_context_fini invocations
  dropPc,             \* position of Drop for rcl_context_t
  dropShutdownRet,    \* result of rcl_shutdown made by the drop
  finiRet,            \* result of rcl_context_fini
  cell,               \* GLOBAL_DEFAULT_CONTEXT: NoInstance or the built instance
  running,            \* thread running the OnceCell initializer
  gpc,                \* position of each thread in get_global_default_context
  gargs,              \* arguments each thread passed to its current call
  built,              \* result of Context::new in the thread's initializer
  got,                \* instance each thread's last call returned
  gcalls,             \* get_global_default_context calls started
  newRuns,            \* Context::new invocations
  newOk,              \* Context::new invocations that succeeded
  newActive,          \* Context::new invocations in progress
  okTrue,             \* the thread's last completed call is an ok() that gave true
  okFalseSeen,        \* some ok() has returned false
  cbInvoked,          \* the callback that was invoked
  lastReg,            \* the callback of the latest registration
  replaced,           \* a registration has replaced a different callback
  ctxDomain,          \* domain id the native handle was initialised with
  envDomain,          \* ROS_DOMAIN_ID at construction, <<>> when not set
  overrideDomain,     \* ContextBuilder::domain_id(..), <<>> when not called
  foxy,               \* the build has ros_distro = "foxy"
  domRet,             \* return code and value of the thread's domain id query
  outerOwner,         \* holder of the guard of the Mutex around the Context
  outerPoisoned,      \* that Mutex is poisoned
  signalled,          \* the interrupt signal has been delivered
  mainPc,             \* position of main() of the signal_handler example
  sigPc               \* position of the installed signal handler

ctxVars == <<handle, lockOwner, poisoned, shutdown_callback, ctxAlive, nodes,
             created, pc, ret, nativeRet, invoked, calls, sdLog, transitioned,
             cbAtShutdown, cbCount, cbSaw, shutdownCalls, finiCalls, dropPc,
             dropShutdownRet, finiRet>>
globalVars == <<cell, running, gpc, gargs, built, got, gcalls, newRuns, newOk,
                newActive>>
obsVars == <<okTrue, okFalseSeen, cbInvoked, lastReg, replaced>>
domVars == <<ctxDomain, envDomain, overrideDomain, foxy, domRet>>
sigVars == <<outerOwner, outerPoisoned, signalled, mainPc, sigPc>>
vars == <<ctxVars, globalVars, obsVars, domVars, sigVars>>
\* What the operations on a Context, and those on the global cell, leave alone.
notCtx == <<globalVars, sigVars>>
notGlobal == <<ctxVars, obsVars, domVars, sigVars>>

\* ------------------------------------------------------- native functions
\* rcl_context_is_valid
rcl_context_is_valid(h) == h = "valid"

\* Results a native call can report.
NativeResults == {"ok", "err"}

\* State of the handle after rcl_shutdown reported r: invalid on success;
\* after a failure the native state is not determined.
AfterShutdown(r) == IF r = "ok" THEN {"shutdown"} ELSE {"valid", "shutdown"}

\* to_rclrs_result
to_rclrs_result(r) == IF r = "ok" THEN "Ok" ELSE "Err"

\* Domain ids a program is started with.
DomainIds == {0, 10, 11}

\* An optional domain id: <<>> or <<d>>.
OptDomain == {<<>>} \cup {<<d>> : d \in DomainIds}

\* The domain id the native layer uses when nothing selects one.
DefaultDomainId == 0

\* Domain id resolution of the native initialisation: the builder's override,
\* else ROS_DOMAIN_ID, else the platform default.
ResolveDomainId(override, env) ==
  IF override # <<>> THEN override[1]
  ELSE IF env # <<>> THEN env[1]
  ELSE DefaultDomainId

\* No domain id query made: `let mut domain_id: usize = 0;`
NoQuery == [code |-> "none", value |-> 0]

\* ------------------------------------------------------------------ Mutex
\* Variant: lock() hands out the guard of a poisoned mutex.
LockUnwrap_IgnorePoison(t, next) ==
  /\ lockOwner = NoThread
  /\ pc' = [pc EXCEPT ![t] = next]
  /\ lockOwner' = t

\* Mutex::lock().unwrap(): blocks while another guard exists; on a poisoned
\* mutex lock() returns Err and unwrap() panics, dropping the guard.
LockUnwrap(t, next) ==
  /\ lockOwner = NoThread
  /\ IF poisoned
       THEN /\ pc' = [pc EXCEPT ![t] = "panicked"]
            /\ UNCHANGED lockOwner
       ELSE /\ pc' = [pc EXCEPT ![t] = next]
            /\ lockOwner' = t

\* A panic unwinding through a live guard poisons the mutex and unlocks it.
PanicWithGuard(t) ==
  /\ pc' = [pc EXCEPT ![t] = "panicked"]
  /\ poisoned' = TRUE
  /\ lockOwner' = NoThread

Resting(t) == pc[t] \in {"idle", "panicked"}

holderVars == <<ctxAlive, nodes, created>>
dropVars == <<dropPc, dropShutdownRet, finiRet>>
histVars == <<sdLog, transitioned, cbAtShutdown, cbCount, cbSaw,
              shutdownCalls, finiCalls>>

\* ------------------------------------------------------------ Context::ok
OkCall(t) ==
  /\ ctxAlive
  /\ pc[t] = "idle"
  /\ SumTo(calls, NumThreads) < MaxCalls
  /\ pc' = [pc EXCEPT ![t] = "ok_lock"]
  /\ calls' = [calls EXCEPT ![t] = @ + 1]
  /\ ret' = [ret EXCEPT ![t] = FALSE]
  /\ okTrue' = [okTrue EXCEPT ![t] = FALSE]
  /\ UNCHANGED <<handle, lockOwner, poisoned, shutdown_callback, holderVars,
                 nativeRet, invoked, histVars, dropVars,
                 okFalseSeen, cbInvoked, lastReg, replaced, domVars>>

\* Variant: ok() reads the handle without taking the lock.
OkLock_NoGuard(t) ==
  /\ pc[t] = "ok_lock"
  /\ pc' = [pc EXCEPT ![t] = "ok_valid"]
  /\ UNCHANGED <<handle, lockOwner, poisoned, shutdown_callback, holderVars,
                 ret, nativeRet, invoked, calls, histVars, dropVars,
                 obsVars, domVars>>

OkLock(t) ==
  /\ pc[t] = "ok_lock"
  /\ LockUnwrap(t, "ok_valid")
  /\ UNCHANGED <<handle, poisoned, shutdown_callback, holderVars, ret,
                 nativeRet, invoked, calls, histVars, dropVars,
                 obsVars, domVars>>

OkIsValid(t) ==
  /\ pc[t] = "ok_valid"
  /\ ret' = [ret EXCEPT ![t] = rcl_context_is_valid(handle)]
  /\ pc' = [pc EXCEPT ![t] = "ok_ret"]
  /\ UNCHANGED <<handle, lockOwner, poisoned, shutdown_callback, holderVars,
                 nativeRet, invoked, calls, histVars, dropVars,
                 obsVars, domVars>>

\* The guard lives to the end of the function body.
OkReturn(t) ==
  /\ pc[t] = "ok_ret"
  /\ lockOwner' = NoThread
  /\ pc' = [pc EXCEPT ![t] = "idle"]
  /\ okTrue' = [okTrue EXCEPT ![t] = (ret[t] = TRUE)]
  /\ okFalseSeen' = (okFalseSeen \/ ret[t] = FALSE)
  /\ ret' = [ret EXCEPT ![t] = FALSE]
  /\ UNCHANGED <<handle, poisoned, shutdown_callback, holderVars,
                 nativeRet, invoked, calls, histVars, dropVars,
                 cbInvoked, lastReg, replaced, domVars>>

\* ----------------------------------------------------- Context::domain_id
\* rcl_context_get_domain_id: on a valid handle it reports success and the
\* domain id of the handle; on an invalid one the contract leaves the outcome
\* open, and a failure leaves the caller's `domain_id` at its initial 0.
QueryResults(h) ==
  IF rcl_context_is_valid(h)
    THEN {[code |-> "ok", value |-> ctxDomain]}
    ELSE {[code |-> "ok", value |-> ctxDomain], [code |-> "err", value |-> 0]}

DomainIdCall(t) ==
  /\ ctxAlive
  /\ pc[t] = "idle"
  /\ SumTo(calls, NumThreads) < MaxCalls
  /\ pc' = [pc EXCEPT ![t] = IF foxy THEN "dom_default" ELSE "dom_lock"]
  /\ calls' = [calls EXCEPT ![t] = @ + 1]
  /\ ret' = [ret EXCEPT ![t] = FALSE]
  /\ domRet' = [domRet EXCEPT ![t] = NoQuery]
  /\ UNCHANGED <<handle, lockOwner, poisoned, shutdown_callback, holderVars,
                 nativeRet, invoked, histVars, dropVars, obsVars, ctxDomain,
                 envDomain, overrideDomain, foxy>>

\* Variant: domain_id() queries the handle without taking the lock.
DomainIdLock_NoGuard(t) ==
  /\ pc[t] = "dom_lock"
  /\ pc' = [pc EXCEPT ![t] = "dom_query"]
  /\ UNCHANGED <<handle, lockOwner, poisoned, shutdown_callback, holderVars,
                 ret, nativeRet, invoked, calls, histVars, dropVars, obsVars,
                 domVars>>

DomainIdLock(t) ==
  /\ pc[t] = "dom_lock"
  /\ LockUnwrap(t, "dom_query")
  /\ UNCHANGED <<handle, poisoned, shutdown_callback, holderVars, ret,
                 nativeRet, invoked, calls, histVars, dropVars, obsVars,
                 domVars>>

\* Variant: the value written by the native query is not the one returned.
DomainIdQuery_Unwritten(t) ==
  /\ pc[t] = "dom_query"
  /\ domRet' = [domRet EXCEPT ![t] = [code |-> "ok", value |-> 0]]
  /\ lockOwner' = NoThread
  /\ pc' = [pc EXCEPT ![t] = "dom_assert"]
  /\ UNCHANGED <<handle, poisoned, shutdown_callback, holderVars, ret,
                 nativeRet, invoked, calls, histVars, dropVars, obsVars,
                 ctxDomain, envDomain, overrideDomain, foxy>>

\* rcl_context_get_domain_id(&mut *rcl_context, &mut domain_id); the guard is
\* dropped at the end of the unsafe block.
DomainIdQuery(t) ==
  /\ pc[t] = "dom_query"
  /\ \E r \in QueryResults(handle) : domRet' = [domRet EXCEPT ![t] = r]
  /\ lockOwner' = NoThread
  /\ pc' = [pc EXCEPT ![t] = "dom_assert"]
  /\ UNCHANGED <<handle, poisoned, shutdown_callback, holderVars, ret,
                 nativeRet, invoked, calls, histVars, dropVars, obsVars,
                 ctxDomain, envDomain, overrideDomain, foxy>>

\* The "foxy" build: rcl_get_default_domain_id(&mut domain_id), which reads
\* the environment and takes no lock.
DomainIdDefault(t) ==
  /\ pc[t] = "dom_default"
  /\ domRet' = [domRet EXCEPT ![t] =
                 [code |-> "ok", value |-> ResolveDomainId(<<>>, envDomain)]]
  /\ pc' = [pc EXCEPT ![t] = "dom_assert"]
  /\ UNCHANGED <<handle, lockOwner, poisoned, shutdown_callback, holderVars,
                 ret, nativeRet, invoked, calls, histVars, dropVars, obsVars,
                 ctxDomain, envDomain, overrideDomain, foxy>>

\* debug_assert_eq!(ret, 0); domain_id      A build with debug assertions
\* panics on a failed query, one without returns the value.
DomainIdReturn(t) ==
  /\ pc[t] = "dom_assert"
  /\ \/ /\ pc' = [pc EXCEPT ![t] = "idle"]
        /\ domRet' = [domRet EXCEPT ![t] = NoQuery]
     \/ /\ domRet[t].code = "err"
        /\ pc' = [pc EXCEPT ![t] = "panicked"]
        /\ UNCHANGED domRet
  /\ okTrue' = [okTrue EXCEPT ![t] = FALSE]
  /\ UNCHANGED <<handle, lockOwner, poisoned, shutdown_callback, holderVars,
                 ret, nativeRet, invoked, calls, histVars, dropVars,
                 okFalseSeen, cbInvoked, lastReg, replaced, ctxDomain,
                 envDomain, overrideDomain, foxy>>

\* ------------------------------------------ Context::add_on_shutdown_callback
\* Variant: a registration does not replace a callback already stored.
AddOnShutdownCallback_KeepFirst(c) ==
  /\ ctxAlive
  /\ \A t \in Threads : Resting(t)
  /\ shutdown_callback' =
       IF shutdown_callback = NoCallback THEN c ELSE shutdown_callback
  /\ lastReg' = c
  /\ replaced' = (replaced \/ shutdown_callback \notin {NoCallback, c})
  /\ UNCHANGED <<handle, lockOwner, poisoned, holderVars, pc, ret, nativeRet,
                 invoked, calls, histVars, dropVars,
                 okTrue, okFalseSeen, cbInvoked, domVars>>

\* Takes &mut self: no other call on the Context is in progress.
AddOnShutdownCallback(c) ==
  /\ ctxAlive
  /\ \A t \in Threads : Resting(t)
  /\ shutdown_callback' = c
  /\ lastReg' = c
  /\ replaced' = (replaced \/ shutdown_callback \notin {NoCallback, c})
  /\ UNCHANGED <<handle, lockOwner, poisoned, holderVars, pc, ret, nativeRet,
                 invoked, calls, histVars, dropVars,
                 okTrue, okFalseSeen, cbInvoked, domVars>>

\* ------------------------------------------------------ Context::shutdown
ShutdownCall(t) ==
  /\ ctxAlive
  /\ pc[t] = "idle"
  /\ SumTo(calls, NumThreads) < MaxCalls
  /\ pc' = [pc EXCEPT ![t] = "sd_lock"]
  /\ calls' = [calls EXCEPT ![t] = @ + 1]
  /\ ret' = [ret EXCEPT ![t] = FALSE]
  /\ invoked' = [invoked EXCEPT ![t] = FALSE]
  /\ nativeRet' = [nativeRet EXCEPT ![t] = "none"]
  /\ okTrue' = [okTrue EXCEPT ![t] = FALSE]
  /\ UNCHANGED <<handle, lockOwner, poisoned, shutdown_callback, holderVars,
                 histVars, dropVars,
                 okFalseSeen, cbInvoked, lastReg, replaced, domVars>>

\* Variant: the validity check and rcl_shutdown run without the guard.
ShutdownLock_NoGuard(t) ==
  /\ pc[t] = "sd_lock"
  /\ pc' = [pc EXCEPT ![t] = "sd_valid"]
  /\ UNCHANGED <<handle, lockOwner, poisoned, shutdown_callback, holderVars,
                 ret, nativeRet, invoked, calls, histVars, dropVars,
                 obsVars, domVars>>

ShutdownLock(t) ==
  /\ pc[t] = "sd_lock"
  /\ LockUnwrap(t, "sd_valid")
  /\ UNCHANGED <<handle, poisoned, shutdown_callback, holderVars, ret,
                 nativeRet, invoked, calls, histVars, dropVars,
                 obsVars, domVars>>

\* Variant: the validity guard is missing, every call goes on to rcl_shutdown.
ShutdownIsValid_NoGuard(t) ==
  /\ pc[t] = "sd_valid"
  /\ pc' = [pc EXCEPT ![t] = "sd_native"]
  /\ UNCHANGED <<handle, lockOwner, poisoned, shutdown_callback, holderVars,
                 ret, nativeRet, invoked, calls, histVars, dropVars,
                 obsVars, domVars>>

\* if !rcl_context_is_valid(rcl_context) { return false; }
ShutdownIsValid(t) ==
  /\ pc[t] = "sd_valid"
  /\ IF ~rcl_context_is_valid(handle)
       THEN /\ ret' = [ret EXCEPT ![t] = FALSE]
            /\ pc' = [pc EXCEPT ![t] = "sd_ret"]
       ELSE /\ pc' = [pc EXCEPT ![t] = "sd_native"]
            /\ UNCHANGED ret
  /\ UNCHANGED <<handle, lockOwner, poisoned, shutdown_callback, holderVars,
                 nativeRet, invoked, calls, histVars, dropVars,
                 obsVars, domVars>>

\* Variant: the callback is invoked in place of, and so before, rcl_shutdown.
ShutdownNative_CallbackFirst(t) ==
  /\ pc[t] = "sd_native"
  /\ IF shutdown_callback # NoCallback
       THEN /\ pc' = [pc EXCEPT ![t] = "sd_cb"]
            /\ invoked' = [invoked EXCEPT ![t] = TRUE]
            /\ cbCount' = cbCount + 1
            /\ UNCHANGED <<handle, nativeRet, transitioned, cbAtShutdown,
                           shutdownCalls>>
       ELSE /\ pc' = [pc EXCEPT ![t] = "sd_check"]
            /\ nativeRet' = [nativeRet EXCEPT ![t] = "ok"]
            /\ handle' = "shutdown"
            /\ transitioned' = <<t, calls[t]>>
            /\ cbAtShutdown' = shutdown_callback
            /\ shutdownCalls' = shutdownCalls + 1
            /\ UNCHANGED <<invoked, cbCount>>
  /\ UNCHANGED <<lockOwner, poisoned, shutdown_callback, holderVars, ret,
                 calls, sdLog, cbSaw, finiCalls, dropVars,
                 obsVars, domVars>>

\* let ret = rcl_shutdown(rcl_context);
ShutdownNative(t) ==
  /\ pc[t] = "sd_native"
  /\ \E r \in NativeResults :
       /\ nativeRet' = [nativeRet EXCEPT ![t] = r]
       /\ handle' \in AfterShutdown(r)
       /\ IF r = "ok"
            THEN /\ transitioned' = <<t, calls[t]>>
                 /\ cbAtShutdown' = shutdown_callback
            ELSE UNCHANGED <<transitioned, cbAtShutdown>>
  /\ shutdownCalls' = shutdownCalls + 1
  /\ pc' = [pc EXCEPT ![t] = "sd_check"]
  /\ UNCHANGED <<lockOwner, poisoned, shutdown_callback, holderVars, ret,
                 invoked, calls, sdLog, cbCount, cbSaw, finiCalls, dropVars,
                 obsVars, domVars>>

\* if let Err(e) = to_rclrs_result(ret) { panic!(..) }
\* if let Some(callback) = &self.shutdown_callback { callback(); }  true
ShutdownCheck(t) ==
  /\ pc[t] = "sd_check"
  /\ IF to_rclrs_result(nativeRet[t]) = "Err"
       THEN /\ PanicWithGuard(t)
            /\ UNCHANGED <<ret, invoked, cbCount, cbInvoked>>
       ELSE /\ UNCHANGED <<lockOwner, poisoned>>
            /\ IF shutdown_callback # NoCallback
                 THEN /\ pc' = [pc EXCEPT ![t] = "sd_cb"]
                      /\ invoked' = [invoked EXCEPT ![t] = TRUE]
                      /\ cbCount' = cbCount + 1
                      /\ cbInvoked' = shutdown_callback
                      /\ UNCHANGED ret
                 ELSE /\ pc' = [pc EXCEPT ![t] = "sd_ret"]
                      /\ ret' = [ret EXCEPT ![t] = TRUE]
                      /\ UNCHANGED <<invoked, cbCount, cbInvoked>>
  /\ UNCHANGED <<handle, shutdown_callback, holderVars, nativeRet, calls,
                 sdLog, transitioned, cbAtShutdown, cbSaw, shutdownCalls,
                 finiCalls, dropVars,
                 okTrue, okFalseSeen, lastReg, replaced, domVars>>

\* The body of the registered callback, run by the thread inside shutdown().
\* "cbQuery" calls ok() on the same context: Mutex::lock on a mutex the calling
\* thread already holds never returns (it deadlocks or panics).
Callback(t) ==
  /\ pc[t] = "sd_cb"
  /\ CASE shutdown_callback = "cbPanic" ->
            /\ PanicWithGuard(t)
            /\ UNCHANGED <<ret, cbSaw>>
       [] shutdown_callback = "cbQuery" /\ lockOwner = t ->
            /\ \/ /\ pc' = [pc EXCEPT ![t] = "deadlocked"]
                  /\ UNCHANGED <<lockOwner, poisoned>>
               \/ PanicWithGuard(t)
            /\ UNCHANGED <<ret, cbSaw>>
       [] shutdown_callback = "cbQuery" /\ lockOwner # t ->
            /\ lockOwner = NoThread
            /\ cbSaw' = rcl_context_is_valid(handle)
            /\ ret' = [ret EXCEPT ![t] = TRUE]
            /\ pc' = [pc EXCEPT ![t] = "sd_ret"]
            /\ UNCHANGED <<lockOwner, poisoned>>
       [] OTHER ->
            /\ ret' = [ret EXCEPT ![t] = TRUE]
            /\ pc' = [pc EXCEPT ![t] = "sd_ret"]
            /\ UNCHANGED <<lockOwner, poisoned, cbSaw>>
  /\ UNCHANGED <<handle, shutdown_callback, holderVars, nativeRet, invoked,
                 calls, sdLog, transitioned, cbAtShutdown, cbCount,
                 shutdownCalls, finiCalls, dropVars,
                 obsVars, domVars>>

\* The guard is dropped when the unsafe block is left, by `return false` or
\* after the value `true`.
ShutdownReturn(t) ==
  /\ pc[t] = "sd_ret"
  /\ lockOwner' = NoThread
  /\ sdLog' = Append(sdLog, <<t, calls[t], ret[t]>>)
  /\ pc' = [pc EXCEPT ![t] = "idle"]
  /\ ret' = [ret EXCEPT ![t] = FALSE]
  /\ nativeRet' = [nativeRet EXCEPT ![t] = "none"]
  /\ invoked' = [invoked EXCEPT ![t] = FALSE]
  /\ UNCHANGED <<handle, poisoned, shutdown_callback, holderVars,
                 calls, transitioned, cbAtShutdown,
                 cbCount, cbSaw, shutdownCalls, finiCalls, dropVars,
                 obsVars, domVars>>

\* ------------------------------------------------- shared ownership (Arc)
\* Strong count of the Arc<Mutex<rcl_context_t>>.
Holders == (IF ctxAlive THEN 1 ELSE 0) + nodes

\* Holders dropped so far.
HolderDrops == (1 + created) - Holders

\* Variant: every drop of a holder drops the value.
ArcDropsValue_Always(count) == TRUE

\* Dropping an Arc drops the value it points to when the count before the
\* drop is one.
ArcDropsValue(count) == count = 1

\* A node created from the context clones the Arc.
CreateNode ==
  /\ ctxAlive
  /\ created < MaxNodes
  /\ nodes' = nodes + 1
  /\ created' = created + 1
  /\ UNCHANGED <<handle, lockOwner, poisoned, shutdown_callback, ctxAlive, pc,
                 ret, nativeRet, invoked, calls, histVars, dropVars,
                 obsVars, domVars>>

DropNode ==
  /\ nodes > 0
  /\ nodes' = nodes - 1
  /\ dropPc' = IF ArcDropsValue(Holders) THEN "check" ELSE dropPc
  /\ UNCHANGED <<handle, lockOwner, poisoned, shutdown_callback, ctxAlive,
                 created, pc, ret, nativeRet, invoked, calls, histVars,
                 dropShutdownRet, finiRet,
                 obsVars, domVars>>

\* The Context value can be dropped only when no call borrows it.
DropContext ==
  /\ ctxAlive
  /\ \A t \in Threads : Resting(t)
  /\ ctxAlive' = FALSE
  /\ dropPc' = IF ArcDropsValue(Holders) THEN "check" ELSE dropPc
  /\ UNCHANGED <<handle, lockOwner, poisoned, shutdown_callback, nodes,
                 created, pc, ret, nativeRet, invoked, calls, histVars,
                 dropShutdownRet, finiRet,
                 obsVars, domVars>>

\* ------------------------------------------------ Drop for rcl_context_t
\* Variant: the drop shuts the handle down without looking at its validity.
DropIsValid_NoCheck ==
  /\ dropPc = "check"
  /\ dropPc' = "shutdown"
  /\ UNCHANGED <<handle, lockOwner, poisoned, shutdown_callback, holderVars,
                 pc, ret, nativeRet, invoked, calls, histVars,
                 dropShutdownRet, finiRet,
                 obsVars, domVars>>

\* if rcl_context_is_valid(self) {
DropIsValid ==
  /\ dropPc = "check"
  /\ dropPc' = IF rcl_context_is_valid(handle) THEN "shutdown" ELSE "fini"
  /\ UNCHANGED <<handle, lockOwner, poisoned, shutdown_callback, holderVars,
                 pc, ret, nativeRet, invoked, calls, histVars,
                 dropShutdownRet, finiRet,
                 obsVars, domVars>>

\* Variant: the drop's shutdown invokes the registered callback as well.
DropShutdown_Callback ==
  /\ dropPc = "shutdown"
  /\ \E r \in NativeResults :
       /\ dropShutdownRet' = r
       /\ handle' \in AfterShutdown(r)
  /\ shutdownCalls' = shutdownCalls + 1
  /\ cbCount' = IF lastReg # NoCallback THEN cbCount + 1 ELSE cbCount
  /\ dropPc' = "fini"
  /\ UNCHANGED <<lockOwner, poisoned, shutdown_callback, holderVars, pc, ret,
                 nativeRet, invoked, calls, sdLog, transitioned, cbAtShutdown,
                 cbSaw, finiCalls, finiRet,
                 obsVars, domVars>>

\* rcl_shutdown(self);   the result is not looked at
DropShutdown ==
  /\ dropPc = "shutdown"
  /\ \E r \in NativeResults :
       /\ dropShutdownRet' = r
       /\ handle' \in AfterShutdown(r)
  /\ shutdownCalls' = shutdownCalls + 1
  /\ dropPc' = "fini"
  /\ UNCHANGED <<lockOwner, poisoned, shutdown_callback, holderVars, pc, ret,
                 nativeRet, invoked, calls, sdLog, transitioned, cbAtShutdown,
                 cbCount, cbSaw, finiCalls, finiRet,
                 obsVars, domVars>>

\* let ret = rcl_context_fini(self);
DropFini ==
  /\ dropPc = "fini"
  /\ \E r \in NativeResults :
       /\ finiRet' = r
       /\ handle' = IF r = "ok" THEN "finalized" ELSE handle
  /\ finiCalls' = finiCalls + 1
  /\ dropPc' = "fini_check"
  /\ UNCHANGED <<lockOwner, poisoned, shutdown_callback, holderVars, pc, ret,
                 nativeRet, invoked, calls, sdLog, transitioned, cbAtShutdown,
                 cbCount, cbSaw, shutdownCalls, dropShutdownRet,
                 obsVars, domVars>>

\* Variant: the result of rcl_context_fini is not looked at.
DropCheck_Ignored ==
  /\ dropPc = "fini_check"
  /\ dropPc' = "done"
  /\ UNCHANGED <<handle, lockOwner, poisoned, shutdown_callback, holderVars,
                 pc, ret, nativeRet, invoked, calls, histVars,
                 dropShutdownRet, finiRet,
                 obsVars, domVars>>

\* if let Err(e) = to_rclrs_result(ret) { panic!(..) }
DropCheck ==
  /\ dropPc = "fini_check"
  /\ dropPc' = IF to_rclrs_result(finiRet) = "Err" THEN "panicked" ELSE "done"
  /\ UNCHANGED <<handle, lockOwner, poisoned, shutdown_callback, holderVars,
                 pc, ret, nativeRet, invoked, calls, histVars,
                 dropShutdownRet, finiRet,
                 obsVars, domVars>>

\* ------------------------------------------------------------------- Spec
\* A Context that Context::new returned: the handle is valid, nothing is
\* registered, the Context is the only holder.
InitCtx ==
  /\ handle = "valid"
  /\ lockOwner = NoThread
  /\ poisoned = FALSE
  /\ shutdown_callback = NoCallback
  /\ ctxAlive = TRUE
  /\ nodes = 0
  /\ created = 0
  /\ pc = [t \in Threads |-> "idle"]
  /\ ret = [t \in Threads |-> FALSE]
  /\ nativeRet = [t \in Threads |-> "none"]
  /\ invoked = [t \in Threads |-> FALSE]
  /\ calls = [t \in Threads |-> 0]
  /\ sdLog = <<>>
  /\ transitioned = <<>>
  /\ cbAtShutdown = NoCallback
  /\ cbCount = 0
  /\ cbSaw = "none"
  /\ shutdownCalls = 0
  /\ finiCalls = 0
  /\ dropPc = "none"
  /\ dropShutdownRet = "none"
  /\ finiRet = "none"

InitGlobal ==
  /\ cell = NoInstance
  /\ running = NoThread
  /\ gpc = [t \in Threads |-> "idle"]
  /\ gargs = [t \in Threads |-> 0]
  /\ built = [t \in Threads |-> "none"]
  /\ got = [t \in Threads |-> NoInstance]
  /\ gcalls = [t \in Threads |-> 0]
  /\ newRuns = 0
  /\ newOk = 0
  /\ newActive = 0

InitObs ==
  /\ okTrue = [t \in Threads |-> FALSE]
  /\ okFalseSeen = FALSE
  /\ cbInvoked = NoCallback
  /\ lastReg = NoCallback
  /\ replaced = FALSE

\* Nothing is installed and main() has not started.
InitSignal ==
  /\ outerOwner = "none"
  /\ outerPoisoned = FALSE
  /\ signalled = FALSE
  /\ mainPc = "start"
  /\ sigPc = "waiting"

\* The context was built with ROS_DOMAIN_ID not set and no override, by
\* either build.
InitDomain ==
  /\ foxy \in BOOLEAN
  /\ envDomain = <<>>
  /\ overrideDomain = <<>>
  /\ ctxDomain = ResolveDomainId(overrideDomain, envDomain)
  /\ domRet = [t \in Threads |-> NoQuery]

Init == InitCtx /\ InitGlobal /\ InitObs /\ InitSignal /\ InitDomain

Next ==
  \/ \E t \in Threads : OkCall(t) /\ UNCHANGED notCtx
  \/ \E t \in Threads : OkLock(t) /\ UNCHANGED notCtx
  \/ \E t \in Threads : OkIsValid(t) /\ UNCHANGED notCtx
  \/ \E t \in Threads : OkReturn(t) /\ UNCHANGED notCtx
  \/ \E t \in Threads : DomainIdCall(t) /\ UNCHANGED notCtx
  \/ \E t \in Threads : DomainIdLock(t) /\ UNCHANGED notCtx
  \/ \E t \in Threads : DomainIdQuery(t) /\ UNCHANGED notCtx
  \/ \E t \in Threads : DomainIdDefault(t) /\ UNCHANGED notCtx
  \/ \E t \in Threads : DomainIdReturn(t) /\ UNCHANGED notCtx
  \/ \E c \in Callbacks : AddOnShutdownCallback(c) /\ UNCHANGED notCtx
  \/ \E t \in Threads : ShutdownCall(t) /\ UNCHANGED notCtx
  \/ \E t \in Threads : ShutdownLock(t) /\ UNCHANGED notCtx
  \/ \E t \in Threads : ShutdownIsValid(t) /\ UNCHANGED notCtx
  \/ \E t \in Threads : ShutdownNative(t) /\ UNCHANGED notCtx
  \/ \E t \in Threads : ShutdownCheck(t) /\ UNCHANGED notCtx
  \/ \E t \in Threads : Callback(t) /\ UNCHANGED notCtx
  \/ \E t \in Threads : ShutdownReturn(t) /\ UNCHANGED notCtx
  \/ CreateNode /\ UNCHANGED notCtx
  \/ DropNode /\ UNCHANGED notCtx
  \/ DropContext /\ UNCHANGED notCtx
  \/ DropIsValid /\ UNCHANGED notCtx
  \/ DropShutdown /\ UNCHANGED notCtx
  \/ DropFini /\ UNCHANGED notCtx
  \/ DropCheck /\ UNCHANGED notCtx

Spec == Init /\ [][Next]_vars

\* ------------------------- DefaultContext::get_global_default_context
\* Argument sequences the native initialisation rejects.
InvalidArgs == {NumArgs}

\* ContextBuilder::build: Ok(Context), or Err for arguments that do not parse
\* or when the native allocation fails.
BuildResults(a) == IF a \in InvalidArgs THEN {"Err"} ELSE {"Ok", "Err"}

GetCall(t, a) ==
  /\ gpc[t] = "idle"
  /\ gcalls[t] < MaxCalls
  /\ gcalls' = [gcalls EXCEPT ![t] = @ + 1]
  /\ gargs' = [gargs EXCEPT ![t] = a]
  /\ got' = [got EXCEPT ![t] = NoInstance]
  /\ built' = [built EXCEPT ![t] = "none"]
  /\ gpc' = [gpc EXCEPT ![t] = "get"]
  /\ UNCHANGED <<cell, running, newRuns, newOk, newActive>>

\* Variant: a caller that finds the cell empty does not wait for a running
\* initializer.
GetOrInit_NoWait(t) ==
  /\ gpc[t] = "get"
  /\ IF cell # NoInstance
       THEN /\ got' = [got EXCEPT ![t] = cell]
            /\ gpc' = [gpc EXCEPT ![t] = "idle"]
            /\ UNCHANGED <<running, newRuns, newActive>>
       ELSE /\ running' = t
            /\ gpc' = [gpc EXCEPT ![t] = "new"]
            /\ newRuns' = newRuns + 1
            /\ newActive' = newActive + 1
            /\ UNCHANGED got
  /\ UNCHANGED <<cell, gargs, built, gcalls, newOk>>

\* Variant: the cell is not consulted, every call builds and stores anew.
GetOrInit_Rebuild(t) ==
  /\ gpc[t] = "get"
  /\ running = NoThread
  /\ running' = t
  /\ gpc' = [gpc EXCEPT ![t] = "new"]
  /\ newRuns' = newRuns + 1
  /\ newActive' = newActive + 1
  /\ UNCHANGED <<cell, gargs, built, got, gcalls, newOk>>

\* GLOBAL_DEFAULT_CONTEXT.get_or_init(..): a set cell is returned as it is;
\* on an empty cell one caller runs the closure and the others wait for it.
GetOrInit(t) ==
  /\ gpc[t] = "get"
  /\ IF cell # NoInstance
       THEN /\ got' = [got EXCEPT ![t] = cell]
            /\ gpc' = [gpc EXCEPT ![t] = "idle"]
            /\ UNCHANGED <<running, newRuns, newActive>>
       ELSE /\ running = NoThread
            /\ running' = t
            /\ gpc' = [gpc EXCEPT ![t] = "new"]
            /\ newRuns' = newRuns + 1
            /\ newActive' = newActive + 1
            /\ UNCHANGED got
  /\ UNCHANGED <<cell, gargs, built, gcalls, newOk>>

\* Context::new(args): Self::builder(args).build()
ContextNew(t) ==
  /\ gpc[t] = "new"
  /\ \E r \in BuildResults(gargs[t]) :
       /\ built' = [built EXCEPT ![t] = r]
       /\ newOk' = IF r = "Ok" THEN newOk + 1 ELSE newOk
  /\ newActive' = newActive - 1
  /\ gpc' = [gpc EXCEPT ![t] = "unwrap"]
  /\ UNCHANGED <<cell, running, gargs, got, gcalls, newRuns>>

\* .unwrap() of the result inside the closure. Ok: the closure's value is
\* stored and returned. Err: the panic leaves get_or_init, the cell stays
\* empty and a waiting caller runs its own closure.
UnwrapAndStore(t) ==
  /\ gpc[t] = "unwrap"
  /\ running' = NoThread
  /\ IF built[t] = "Err"
       THEN /\ gpc' = [gpc EXCEPT ![t] = "panicked"]
            /\ UNCHANGED <<cell, got>>
       ELSE /\ cell' = [id |-> newRuns, args |-> gargs[t], by |-> t]
            /\ got' = [got EXCEPT ![t] = cell']
            /\ gpc' = [gpc EXCEPT ![t] = "idle"]
  /\ UNCHANGED <<gargs, built, gcalls, newRuns, newOk, newActive>>

NextGlobal ==
  \/ \E t \in Threads, a \in ArgSeqs : GetCall(t, a) /\ UNCHANGED notGlobal
  \/ \E t \in Threads : GetOrInit(t) /\ UNCHANGED notGlobal
  \/ \E t \in Threads : ContextNew(t) /\ UNCHANGED notGlobal
  \/ \E t \in Threads : UnwrapAndStore(t) /\ UNCHANGED notGlobal

SpecGlobal == Init /\ [][NextGlobal]_vars

\* ------------------------------- signal_handler example: main and handler
\* main() runs on thread 1; the installed handler runs its shutdown() on
\* thread 2. Both reach the Context through an Arc<Mutex<Context>>.
MainThread == 1
HandlerThread == 2

ctxFrame == <<handle, lockOwner, poisoned, shutdown_callback, ctxAlive, nodes,
              created, ret, nativeRet, invoked, calls, histVars, dropVars,
              obsVars, domVars, globalVars>>

\* let context = context.lock().unwrap();
MainNodeLock ==
  /\ mainPc = "start"
  /\ outerOwner = "none"
  /\ IF outerPoisoned
       THEN mainPc' = "panicked" /\ UNCHANGED outerOwner
       ELSE mainPc' = "node" /\ outerOwner' = "main"
  /\ UNCHANGED <<ctxFrame, pc, outerPoisoned, signalled, sigPc>>

\* node = rclrs::create_node(&context, ..)?;  and the end of the block. On a
\* context that is no longer valid the creation fails and main returns Err.
MainCreateNode ==
  /\ mainPc = "node"
  /\ outerOwner' = "none"
  /\ IF rcl_context_is_valid(handle)
       THEN /\ nodes' = nodes + 1
            /\ created' = created + 1
            /\ mainPc' = "poll"
       ELSE /\ mainPc' = "failed"
            /\ UNCHANGED <<nodes, created>>
  /\ UNCHANGED <<handle, lockOwner, poisoned, shutdown_callback, ctxAlive, pc,
                 ret, nativeRet, invoked, calls, histVars, dropVars, obsVars,
                 domVars, globalVars, outerPoisoned, signalled, sigPc>>

\* while context.lock().unwrap().ok()      the outer lock, then the call
MainPollLock ==
  /\ mainPc = "poll"
  /\ outerOwner = "none"
  /\ IF outerPoisoned
       THEN /\ mainPc' = "panicked"
            /\ UNCHANGED <<outerOwner, pc>>
       ELSE /\ mainPc' = "polling"
            /\ outerOwner' = "main"
            /\ pc' = [pc EXCEPT ![MainThread] = "ok_lock"]
  /\ UNCHANGED <<ctxFrame, outerPoisoned, signalled, sigPc>>

\* Variant: the guard of the outer lock is kept for the whole loop.
MainPollEnd_KeepGuard ==
  /\ mainPc = "polling"
  /\ pc[MainThread] \in {"idle", "panicked"}
  /\ IF pc[MainThread] = "panicked"
       THEN /\ mainPc' = "panicked"
            /\ outerPoisoned' = TRUE
            /\ outerOwner' = "none"
       ELSE /\ mainPc' = IF okTrue[MainThread] THEN "body" ELSE "done"
            /\ UNCHANGED <<outerPoisoned, outerOwner>>
  /\ UNCHANGED <<ctxFrame, pc, signalled, sigPc>>

\* ok() has returned or panicked: the guard of the outer lock, a temporary
\* of the loop condition, is dropped; true enters the body, false ends main.
MainPollEnd ==
  /\ mainPc = "polling"
  /\ pc[MainThread] \in {"idle", "panicked"}
  /\ outerOwner' = "none"
  /\ IF pc[MainThread] = "panicked"
       THEN /\ mainPc' = "panicked"
            /\ outerPoisoned' = TRUE
       ELSE /\ mainPc' = IF okTrue[MainThread] THEN "body" ELSE "done"
            /\ UNCHANGED outerPoisoned
  /\ UNCHANGED <<ctxFrame, pc, signalled, sigPc>>

\* The loop body, with no lock held: publisher.publish(&message)?;
MainPublish ==
  /\ mainPc = "body"
  /\ mainPc' = "sleep"
  /\ UNCHANGED <<ctxFrame, pc, outerOwner, outerPoisoned, signalled, sigPc>>

\* std::thread::sleep(std::time::Duration::from_millis(500));
MainSleep ==
  /\ mainPc = "sleep"
  /\ mainPc' = "poll"
  /\ UNCHANGED <<ctxFrame, pc, outerOwner, outerPoisoned, signalled, sigPc>>

\* The operating system delivers the interrupt signal.
SignalDelivered ==
  /\ ~signalled
  /\ signalled' = TRUE
  /\ UNCHANGED <<ctxFrame, pc, outerOwner, outerPoisoned, mainPc, sigPc>>

\* The handler, on the signal: context.lock().unwrap().shutdown()
HandlerLock ==
  /\ sigPc = "waiting"
  /\ signalled
  /\ outerOwner = "none"
  /\ IF outerPoisoned
       THEN /\ sigPc' = "panicked"
            /\ UNCHANGED <<outerOwner, pc>>
       ELSE /\ sigPc' = "shutdown"
            /\ outerOwner' = "handler"
            /\ pc' = [pc EXCEPT ![HandlerThread] = "sd_lock"]
  /\ UNCHANGED <<ctxFrame, outerPoisoned, signalled, mainPc>>

\* shutdown() has returned or panicked: the guard of the outer lock is
\* dropped, by a panic with the lock poisoned.
HandlerEnd ==
  /\ sigPc = "shutdown"
  /\ pc[HandlerThread] \in {"idle", "panicked"}
  /\ outerOwner' = "none"
  /\ IF pc[HandlerThread] = "panicked"
       THEN /\ sigPc' = "panicked"
            /\ outerPoisoned' = TRUE
       ELSE /\ sigPc' = "done"
            /\ UNCHANGED outerPoisoned
  /\ UNCHANGED <<ctxFrame, pc, signalled, mainPc>>

MainNext ==
  \/ MainNodeLock
  \/ MainCreateNode
  \/ MainPollLock
  \/ OkLock(MainThread) /\ UNCHANGED notCtx
  \/ OkIsValid(MainThread) /\ UNCHANGED notCtx
  \/ OkReturn(MainThread) /\ UNCHANGED notCtx
  \/ MainPollEnd
  \/ MainPublish
  \/ MainSleep

HandlerNext ==
  \/ HandlerLock
  \/ ShutdownLock(HandlerThread) /\ UNCHANGED notCtx
  \/ ShutdownIsValid(HandlerThread) /\ UNCHANGED notCtx
  \/ ShutdownNative(HandlerThread) /\ UNCHANGED notCtx
  \/ ShutdownCheck(HandlerThread) /\ UNCHANGED notCtx
  \/ ShutdownReturn(HandlerThread) /\ UNCHANGED notCtx
  \/ HandlerEnd

NextSignal == SignalDelivered \/ MainNext \/ HandlerNext

\* Every thread that can take a step takes one. The handler's wait for the
\* outer lock is served although the loop retakes it at every poll: the loop
\* leaves the lock free for the 500 ms of each sleep.
FairSignal ==
  /\ WF_vars(MainNext)
  /\ WF_vars(HandlerNext)
  /\ SF_vars(HandlerLock)

SpecSignal == Init /\ [][NextSignal]_vars /\ FairSignal

\* ------------------------------------ domain_id() of a freshly built context
\* Context::new([]) or Context::builder([]).domain_id(d).build() under every
\* setting of ROS_DOMAIN_ID. The documentation of the "foxy" domain_id()
\* shows no builder override: that build is started without one.
InitBuilt ==
  /\ foxy \in BOOLEAN
  /\ envDomain \in OptDomain
  /\ overrideDomain \in (IF foxy THEN {<<>>} ELSE OptDomain)
  /\ ctxDomain = ResolveDomainId(overrideDomain, envDomain)
  /\ domRet = [t \in Threads |-> NoQuery]

InitFresh == InitCtx /\ InitGlobal /\ InitObs /\ InitSignal /\ InitBuilt

NextDomain ==
  \/ \E t \in Threads : DomainIdCall(t) /\ UNCHANGED notCtx
  \/ \E t \in Threads : DomainIdLock(t) /\ UNCHANGED notCtx
  \/ \E t \in Threads : DomainIdQuery(t) /\ UNCHANGED notCtx
  \/ \E t \in Threads : DomainIdDefault(t) /\ UNCHANGED notCtx
  \/ \E t \in Threads : DomainIdReturn(t) /\ UNCHANGED notCtx

SpecDomain == InitFresh /\ [][NextDomain]_vars

\* ------------------------------------------- the global default context
\* The state after a first get_global_default_context has built the instance:
\* GLOBAL_DEFAULT_CONTEXT holds it, and with it one holder of the Context.
InitDefault ==
  /\ InitCtx /\ InitObs /\ InitSignal /\ InitDomain
  /\ cell = [id |-> 1, args |-> 1, by |-> 1]
  /\ running = NoThread
  /\ gpc = [t \in Threads |-> "idle"]
  /\ gargs = [t \in Threads |-> IF t = cell.by THEN cell.args ELSE 0]
  /\ built = [t \in Threads |-> IF t = cell.by THEN "Ok" ELSE "none"]
  /\ got = [t \in Threads |-> IF t = cell.by THEN cell ELSE NoInstance]
  /\ gcalls = [t \in Threads |-> IF t = cell.by THEN 1 ELSE 0]
  /\ newRuns = 1
  /\ newOk = 1
  /\ newActive = 0

\* Operations on the default context. A static is never dropped: the holder
\* GLOBAL_DEFAULT_CONTEXT keeps is not among the holders that go away.
NextDefault ==
  \/ \E t \in Threads : OkCall(t) /\ UNCHANGED notCtx
  \/ \E t \in Threads : OkLock(t) /\ UNCHANGED notCtx
  \/ \E t \in Threads : OkIsValid(t) /\ UNCHANGED notCtx
  \/ \E t \in Threads : OkReturn(t) /\ UNCHANGED notCtx
  \/ \E t \in Threads : DomainIdCall(t) /\ UNCHANGED notCtx
  \/ \E t \in Threads : DomainIdLock(t) /\ UNCHANGED notCtx
  \/ \E t \in Threads : DomainIdQuery(t) /\ UNCHANGED notCtx
  \/ \E t \in Threads : DomainIdDefault(t) /\ UNCHANGED notCtx
  \/ \E t \in Threads : DomainIdReturn(t) /\ UNCHANGED notCtx
  \/ \E t \in Threads : ShutdownCall(t) /\ UNCHANGED notCtx
  \/ \E t \in Threads : ShutdownLock(t) /\ UNCHANGED notCtx
  \/ \E t \in Threads : ShutdownIsValid(t) /\ UNCHANGED notCtx
  \/ \E t \in Threads : ShutdownNative(t) /\ UNCHANGED notCtx
  \/ \E t \in Threads : ShutdownCheck(t) /\ UNCHANGED notCtx
  \/ \E t \in Threads : ShutdownReturn(t) /\ UNCHANGED notCtx
  \/ CreateNode /\ UNCHANGED notCtx
  \/ DropNode /\ UNCHANGED notCtx

SpecDefault == InitDefault /\ [][NextDefault]_vars

\* ================================================================= claims
\* Indices of the shutdown() calls that returned true.
TrueReturns == {i \in 1..Len(sdLog) : sdLog[i][3] = TRUE}

\* C1: of the shutdown() calls that have returned, the first returned true
\* and every later one returned false; an ok() that computes its value after
\* a shutdown() has returned computes false.
C1_IdempotentShutdown ==
  /\ \A i \in 1..Len(sdLog) : sdLog[i][3] = (i = 1)
  /\ \A t \in Threads :
       (pc[t] = "ok_ret" /\ Len(sdLog) >= 1) => ret[t] = FALSE

\* One thread has called shutdown() twice, getting true and then false, and
\* an ok() call has then computed false.
C1_Witness ==
  /\ Len(sdLog) = 2
  /\ sdLog[1][1] = sdLog[2][1]
  /\ sdLog[1][3] = TRUE /\ sdLog[2][3] = FALSE
  /\ \E t \in Threads : pc[t] = "ok_ret" /\ ret[t] = FALSE

\* C2: among the shutdown() calls that returned, under every interleaving,
\* exactly one returned true, and it is the call whose rcl_shutdown made the
\* handle invalid; all others returned false.
C2_ExactlyOneTrue ==
  /\ Len(sdLog) >= 1 => Cardinality(TrueReturns) = 1
  /\ \A i \in 1..Len(sdLog) :
       sdLog[i][3] = TRUE <=> <<sdLog[i][1], sdLog[i][2]>> = transitioned

\* Two threads were inside shutdown() at the same time: one has returned
\* true, the other, which was waiting for the lock meanwhile, is about to
\* return false from the same first call.
C2_Witness ==
  \E t, u \in Threads :
    /\ t # u
    /\ Len(sdLog) = 1 /\ sdLog[1] = <<t, 1, TRUE>>
    /\ calls[t] = 1 /\ calls[u] = 1
    /\ pc[u] = "sd_ret" /\ ret[u] = FALSE
    /\ pc[t] = "idle"

\* C3: rcl_context_fini is invoked at most once, only when no holder is
\* left, and the drop that invokes it starts exactly when the last holder is
\* dropped: it has been invoked once the drop has gone past it, whether or
\* not shutdown() was called before.
C3_FinalizeOnce ==
  /\ finiCalls <= 1
  /\ finiCalls = 1 => Holders = 0
  /\ (Holders = 0) <=> (dropPc # "none")
  /\ (dropPc \in {"fini_check", "done", "panicked"}) <=> (finiCalls = 1)

\* Both holders (the Context and a node) were dropped after an explicit
\* shutdown() returned true, and the drop finished.
C3_Witness ==
  /\ HolderDrops = 2
  /\ Cardinality(TrueReturns) = 1
  /\ dropPc = "done"
  /\ finiCalls = 1

\* C4: the callback runs with the handle lock released, and a callback that
\* calls ok() on the same context returns instead of blocking for ever.
C4_CallbackOutsideLock ==
  \A t \in Threads :
    /\ pc[t] = "sd_cb" => lockOwner # t
    /\ pc[t] # "deadlocked"

\* C5: the callback is invoked at most once; it starts only when the handle
\* is already invalid; a shutdown() about to return false has not invoked
\* it; when a shutdown() returned true with a callback registered, it was
\* invoked exactly once.
C5_CallbackOnce ==
  /\ cbCount <= 1
  /\ \A t \in Threads :
       /\ pc[t] = "sd_cb" => ~rcl_context_is_valid(handle)
       /\ (pc[t] = "sd_ret" /\ ret[t] = FALSE) => ~invoked[t]
  /\ (TrueReturns # {} /\ cbAtShutdown # NoCallback) => cbCount = 1

\* With a callback registered, two shutdown() calls returned (true, then
\* false) and the callback has run once.
C5_Witness ==
  /\ cbAtShutdown = "cbA"
  /\ Len(sdLog) = 2
  /\ sdLog[1][3] = TRUE /\ sdLog[2][3] = FALSE
  /\ cbCount = 1

\* C9: when rcl_context_fini reported a failure the drop does not return
\* normally.
C9_FiniFailureFatal ==
  /\ finiRet = "err" => dropPc \in {"fini_check", "panicked"}
  /\ dropPc = "done" => finiRet = "ok"

\* rcl_context_fini failed in the drop of the last holder and the drop
\* panicked.
C9_Witness == finiRet = "err" /\ dropPc = "panicked" /\ Holders = 0

\* C10: after a failed rcl_shutdown execution goes no further, neither in
\* shutdown() (no callback, no return) nor in the drop (no rcl_context_fini).
C10_ShutdownFailureFatal ==
  /\ \A t \in Threads :
       nativeRet[t] = "err" => (pc[t] \in {"sd_check", "panicked"} /\ ~invoked[t])
  /\ dropShutdownRet = "err" => (finiCalls = 0 /\ dropPc \in {"fini", "panicked"})

\* C6: every caller that has returned holds the one stored instance, whatever
\* arguments it passed, and the stored instance, built from the arguments of
\* the caller whose initializer stored it, never changes.
C6_SameInstance ==
  /\ [](\A t \in Threads : got[t] # NoInstance => got[t] = cell)
  /\ [](cell # NoInstance => cell.args \in ArgSeqs \ InvalidArgs)
  /\ [][cell # NoInstance => cell' = cell]_vars

\* Two callers that passed different arguments hold the same instance.
C6_Witness ==
  \E t, u \in Threads :
    /\ t # u
    /\ gargs[t] # gargs[u]
    /\ got[t] # NoInstance
    /\ got[t] = got[u]

\* C7 as stated: Context::new runs at most once per process.
C7_ConstructorRunsOnce == newRuns <= 1

\* C7 amended: at most one Context::new is in progress at any time and at
\* most one ever succeeds, so a further run follows only failed ones; no
\* caller has returned before an instance was constructed and stored.
C7_OneConstruction ==
  /\ newActive <= 1
  /\ newOk <= 1
  /\ newOk + newActive <= 1
  /\ \A t \in Threads :
       /\ got[t] # NoInstance => (newOk = 1 /\ cell # NoInstance)
       /\ (gpc[t] = "get" /\ running # NoThread) => got[t] = NoInstance

\* A caller arrived while another one was constructing, and is waiting.
C7_Witness ==
  \E t, u \in Threads :
    /\ t # u
    /\ gpc[t] = "new" /\ running = t
    /\ gpc[u] = "get" /\ cell = NoInstance

\* C8: a construction failure never panics the caller.
C8_FailureIsTyped ==
  \A t \in Threads : built[t] = "Err" => gpc[t] # "panicked"

\* The polling loop of main is running.
InLoop == mainPc \in {"poll", "polling", "body", "sleep"}

\* C11 as stated: once the signal is delivered, a running polling loop
\* eventually observes false from ok() and ends.
C11_LoopObservesFalse == (signalled /\ InLoop) ~> (mainPc = "done")

\* C11 amended: once the signal is delivered the handler calls shutdown(),
\* and a running polling loop eventually ends: it leaves on a false ok()
\* with the handle invalid, or, when the handler's shutdown() panicked on a
\* failed rcl_shutdown, it panics on the poisoned lock. Neither thread holds
\* the inner lock while the other holds the outer one.
C11_LoopTerminates ==
  /\ (signalled /\ InLoop) ~> (mainPc \in {"done", "panicked"})
  /\ signalled ~> (sigPc # "waiting")
  /\ [](mainPc = "done" =>
          (~rcl_context_is_valid(handle) /\ sigPc \in {"shutdown", "done"}))
  /\ [](mainPc = "panicked" => (poisoned /\ sigPc = "panicked"))
  /\ [](~(outerOwner = "handler" /\ lockOwner = MainThread))
  /\ [](~(outerOwner = "main" /\ lockOwner = HandlerThread))

\* The loop ran, the handler's shutdown() returned true, and the loop left on
\* a false ok().
C11_Witness ==
  /\ signalled
  /\ nodes = 1
  /\ sdLog = <<<<HandlerThread, 0, TRUE>>>>
  /\ sigPc = "done"
  /\ mainPc = "done"

C13_OnlyLatestInvoked ==
  /\ shutdown_callback = lastReg
  /\ cbCount <= 1
  /\ cbCount = 0 => cbInvoked = NoCallback
  /\ \A t \in Threads :
       pc[t] = "sd_cb" => (cbInvoked = lastReg /\ cbInvoked # NoCallback)
  /\ \A i \in TrueReturns : cbCount = 1 => cbInvoked = cbAtShutdown

C13_Witness ==
  /\ replaced
  /\ lastReg = "cbA"
  /\ cbInvoked = "cbA"
  /\ cbCount = 1
  /\ TrueReturns # {}

\* ------------------------------------------------------------------- C14
\* The transitions a handle makes.
HandleSteps ==
  {<<"valid", "shutdown">>, <<"valid", "finalized">>,
   <<"shutdown", "finalized">>}

\* C14: a handle only moves valid -> shut down, valid -> finalized or
\* shut down -> finalized, so one that was shut down is never valid again;
\* and an ok() that is about to return true does so before any ok() on the
\* context has returned false.
C14_Monotonic ==
  /\ [][handle' # handle => <<handle, handle'>> \in HandleSteps]_vars
  /\ [](\A t \in Threads : (pc[t] = "ok_ret" /\ ret[t]) => ~okFalseSeen)

C14_Witness ==
  /\ okFalseSeen
  /\ handle = "finalized"
  /\ \E t \in Threads : okTrue[t]
  /\ TrueReturns # {}

\* ------------------------------------------------------------------- C15
\* C15: when a thread whose preceding call was an ok() that returned true
\* performs the native query of domain_id(), the handle is valid.
C15_QueryOnValidHandle ==
  \A t \in Threads :
    (pc[t] = "dom_query" /\ okTrue[t]) => rcl_context_is_valid(handle)

\* ------------------------------------------------------------------- C16
\* The thread's next step is a native call on the handle: is_valid in ok(),
\* is_valid and rcl_shutdown in shutdown(), get_domain_id in domain_id().
InNative(t) == pc[t] \in {"ok_valid", "sd_valid", "sd_native", "dom_query"}

\* The drop's next step is a native call on the handle: is_valid,
\* rcl_shutdown or rcl_context_fini.
DropInNative == dropPc \in {"check", "shutdown", "fini"}

\* C16: a thread makes a native call on the handle only while it holds the
\* lock of the context, so at most one thread is in such a call; and the
\* drop makes its native calls only when no holder is left and no thread is
\* in a native call.
C16_MutualExclusion ==
  /\ \A t \in Threads : InNative(t) => lockOwner = t
  /\ \A t, u \in Threads : (InNative(t) /\ InNative(u)) => t = u
  /\ DropInNative =>
       /\ Holders = 0
       /\ lockOwner = NoThread
       /\ \A t \in Threads : ~InNative(t)

C16_Witness ==
  \E t, u \in Threads :
    /\ t # u
    /\ pc[t] = "sd_native"
    /\ lockOwner = t
    /\ pc[u] \in {"ok_lock", "dom_lock"}

\* ------------------------------------------------------------------- C17
\* Some rcl_shutdown invocation, of shutdown() or of the drop, has succeeded.
ShutdownSucceeded == transitioned # <<>> \/ dropShutdownRet = "ok"

\* C17 as stated: rcl_shutdown is invoked at most once over the life of the
\* handle, and exactly once by the time rcl_context_fini is invoked.
C17_ShutdownExactlyOnce ==
  /\ shutdownCalls <= 1
  /\ finiCalls > 0 => shutdownCalls = 1

\* C17, amended: rcl_shutdown is invoked only on a valid handle and only
\* before rcl_context_fini, it has been invoked by the time rcl_context_fini
\* is, and it is never invoked after an invocation that succeeded (a success
\* leaves the handle not valid); a second invocation is the drop's, after a
\* shutdown() whose rcl_shutdown failed, left the handle valid and panicked.
C17_ShutdownOnceUnlessFailed ==
  /\ [][shutdownCalls' # shutdownCalls =>
         (rcl_context_is_valid(handle) /\ finiCalls = 0)]_vars
  /\ [](finiCalls > 0 => shutdownCalls >= 1)
  /\ [](ShutdownSucceeded => ~rcl_context_is_valid(handle))
  /\ [](shutdownCalls <= 2)
  /\ [](shutdownCalls = 2 =>
         /\ dropShutdownRet # "none"
         /\ transitioned = <<>>
         /\ poisoned
         /\ \E t \in Threads : pc[t] = "panicked")

C17_Witness ==
  /\ shutdownCalls = 1
  /\ finiCalls = 1
  /\ TrueReturns # {}
  /\ dropShutdownRet = "none"
  /\ dropPc = "done"

\* ------------------------------------------------------------------- C18
\* C18: whatever nodes are created and dropped and whatever shutdown() calls
\* are made on the default context, the holder the singleton keeps remains,
\* the drop of the handle never starts and rcl_context_fini is never invoked.
C18_DefaultNeverFinalized ==
  /\ cell # NoInstance
  /\ ctxAlive
  /\ Holders >= 1
  /\ dropPc = "none"
  /\ finiCalls = 0
  /\ handle # "finalized"

C18_Witness ==
  /\ created = MaxNodes
  /\ nodes = 0
  /\ TrueReturns # {}
  /\ handle = "shutdown"
  /\ cell # NoInstance

\* ------------------------------------------------------------------- C19
\* C19: the callback is invoked only by a step of shutdown(), taken by the
\* thread whose rcl_shutdown succeeded (the call that goes on to return
\* true); a shutdown() that returns false invokes nothing, and when the only
\* rcl_shutdown is the one the drop makes, the callback is never invoked.
C19_CallbackOnlyExplicit ==
  /\ [][cbCount' # cbCount =>
         \E t \in Threads :
           /\ pc[t] = "sd_check"
           /\ pc'[t] = "sd_cb"
           /\ transitioned = <<t, calls[t]>>
           /\ dropPc = "none"]_vars
  /\ [](transitioned = <<>> => cbCount = 0)
  /\ [](\A i \in 1..Len(sdLog) : sdLog[i][3] = FALSE =>
           transitioned # <<sdLog[i][1], sdLog[i][2]>>)
  /\ []((dropShutdownRet # "none" /\ transitioned = <<>>) =>
           (cbCount = 0 /\ cbInvoked = NoCallback))

C19_Witness ==
  /\ lastReg # NoCallback
  /\ dropShutdownRet = "ok"
  /\ handle = "finalized"
  /\ dropPc = "done"
  /\ cbCount = 0

\* ------------------------------------------------------------------- C20
\* The first step of a call: taking the lock or, for domain_id() of the
\* "foxy" build, the query of the environment default.
LockEntry == {"ok_lock", "sd_lock", "dom_lock"}
CallEntry == LockEntry \cup {"dom_default"}

\* Positions at which a thread holds the guard of the handle's lock.
GuardHeld ==
  {"ok_valid", "ok_ret", "sd_valid", "sd_native", "sd_check", "sd_cb",
   "sd_ret", "dom_query"}

\* C20 as stated: once the lock is poisoned, every ok(), domain_id() and
\* shutdown() call that takes its first step panics.
C20_EveryCallPanics ==
  [][\A t \in Threads :
       (poisoned /\ pc[t] \in CallEntry /\ pc'[t] # pc[t]) =>
         pc'[t] = "panicked"]_vars

\* C20, amended: once the lock is poisoned, every call that reaches
\* lock().unwrap() panics there (ok(), shutdown(), and domain_id() except in
\* the "foxy" build, where it takes no lock and still returns the default
\* domain id); no thread holds the guard again, no ok() or shutdown()
\* returns, and so no validity result is observed.
C20_PoisonedLockPanics ==
  /\ [][\A t \in Threads :
          (poisoned /\ pc[t] \in LockEntry /\ pc'[t] # pc[t]) =>
            pc'[t] = "panicked"]_vars
  /\ [](poisoned => \A t \in Threads : pc[t] \notin GuardHeld)
  /\ [](poisoned => lockOwner = NoThread)
  /\ [][poisoned =>
          /\ sdLog' = sdLog
          /\ okFalseSeen' = okFalseSeen
          /\ \A t \in Threads : okTrue'[t] => okTrue[t]]_vars
  /\ [][(poisoned' /\ ~poisoned) =>
          \E t \in Threads :
            /\ pc[t] \in {"sd_check", "sd_cb"}
            /\ pc'[t] = "panicked"]_vars

C20_Witness ==
  /\ poisoned
  /\ \E t, u \in Threads :
       /\ t # u
       /\ nativeRet[t] = "err"
       /\ pc[t] = "panicked"
       /\ pc[u] = "panicked"
       /\ calls[u] >= 1

====
